---- MODULE Spec2Model ----
(***************************************************************************)
(* Model of the simplex Fourier transform engine of                        *)
(* src/experiments/exp1_airfoil/transform.py.                              *)
(*                                                                         *)
(*   Spec / FairSpec : the breadth-first traversal loop of simplex_ft_cpu  *)
(*                     (lines 235-280), one step per pop / simplex / evict *)
(*   CallSpec        : one call of simplex_ft through to its return value  *)
(*                     (validation, noise, ghost append, rescale)          *)
(*   TwiceSpec       : two calls of simplex_ft in a row on the same arrays *)
(*   KernelSpec      : the lanes of simplex_ft_kernel2 / simplex_ft_kernel3*)
(*                     interleaved one cell update at a time               *)
(*   FreqSpec        : the frequency vector each engine evaluates at one   *)
(*                     cell of the returned tensor                         *)
(*   PadSpec         : one call of fftpad or rfftpad                       *)
(*                                                                         *)
(* Vertex and element indices are 0-based as in the source; Python lists   *)
(* that are indexed by vertex are functions on 0..n-1, Python lists that   *)
(* are iterated (queue, pending lists, rows of E) are sequences.           *)
(***************************************************************************)
EXTENDS Integers, Sequences, FiniteSets, TLC

\* ---------------------------------------------------------------- bounds
\* rows of the caller's vertex array V
MaxVert == 3
\* rows of the caller's element table E
MaxElem == 2
\* columns of the caller's element table that are modelled (points, segments;
\* the ghost column is appended on top of these)
Widths == {1, 2}

VARIABLES
  \* ---- simplex_ft_cpu, traversal loop
  E,              \* element table after the ghost append: 0..n_elem-1 -> row
  ghost,          \* line 212
  n_vert,         \* line 218
  n_elem,         \* line 217
  v2elist,        \* vertex -> pending simplices (line 235)
  node_queue,     \* line 236
  sig_list,       \* vertex -> TRUE when sig_list/esig_list hold a pair
  vert_in_queue,  \* line 239
  elem_count,     \* line 240
  F,              \* simplex -> number of times its F0 * D[ie] was added to F
  iv,             \* the vertex popped at line 254
  elems,          \* what is left of the deepcopy of line 256
  enq_count,      \* vertex -> number of node_queue.append calls for it
  phase_count,    \* vertex -> number of times line 265 computed its phase
  pc,
  \* ---- one call of simplex_ft or of a wrapper
  a_entry,        \* the function the caller calls
  callerV,        \* the caller's vertex array: [rows, cols, noise]
  callerE,        \* the caller's element table: [rows, cols, ok_rows], with
                  \* ok_rows the number of simplices the loop of lines
                  \* 247-280 processes before it meets a row that names a
                  \* vertex twice (ok_rows = rows: no row does)
  callerD,        \* the caller's signal array: [rows, chan]
  a_res,          \* res
  a_t,            \* t
  a_j,            \* j as given to simplex_ft
  a_mode,         \* mode as given by the caller
  a_device,       \* device as given by the caller
  e_mode,         \* mode as received by simplex_ft_cpu / simplex_ft_gpu
  locV,           \* the engine's name V: the caller's array or an own array
  locE,           \* the engine's name E
  e_ghost,        \* line 212 / 328
  omega,          \* TRUE once the frequency array exists
  Fsum,           \* the engine's F: [shape, sum], or NoArray before line 232
  ret,            \* what the call gave back: a tensor or an exception
  cpc,
  sc_call,        \* the arguments of the calls of simplex_content, or NoCall
  n_calls,        \* how many times the caller has called with these arrays
  first_ret,      \* what the first of two calls gave back
  \* ---- one launch of simplex_ft_kernel2 / simplex_ft_kernel3
  k_launch,       \* [grid, block]: cuda.gridDim and cuda.blockDim, per axis
  k_r,            \* r = F.shape[:-1], per axis
  k_n_elem,       \* E.shape[0]
  lane,           \* lane -> [i, idx, pc, acc]: its loop indices and position
  k_F,            \* cell -> simplex -> number of times it is held by F[cell]
  k_writers,      \* cell -> the lanes that have stored into F[cell]
  k_syncs,        \* lane -> number of cuda.syncthreads() calls it has made
  \* ---- the frequency vector of one output cell, per engine
  w_res,          \* res
  w_t,            \* t
  w_cell,         \* the index of the cell in the returned F, 0-based
  w_cpu,          \* simplex_ft_cpu: omega[cell], or <<>> before it is built
  w_gpu,          \* simplex_ft_gpu: the kernel's uv / uvw for that cell
  w_pc,
  \* ---- one call of fftpad or rfftpad
  p_F,            \* F: [shape, data]
  p_res,          \* res
  p_norm,         \* norm
  p_out,          \* what the call gave back: an array or an exception
  p_pc

cpuVars == <<E, ghost, n_vert, n_elem, v2elist, node_queue, sig_list,
             vert_in_queue, elem_count, F, iv, elems, enq_count,
             phase_count, pc>>

callVars == <<a_entry, callerV, callerE, callerD, a_res, a_t, a_j, a_mode,
              a_device, e_mode, locV, locE, e_ghost, omega, Fsum, ret, cpc>>

sessVars == <<sc_call, n_calls, first_ret>>

gpuVars == <<k_launch, k_r, k_n_elem, lane, k_F, k_writers, k_syncs>>

freqVars == <<w_res, w_t, w_cell, w_cpu, w_gpu, w_pc>>

padVars == <<p_F, p_res, p_norm, p_out, p_pc>>

vars == <<cpuVars, callVars, sessVars, gpuVars, freqVars, padVars>>

\* ---------------------------------------------------------------- helpers
Range(s) == {s[i] : i \in 1..Len(s)}

Min(S) == CHOOSE x \in S : \A y \in S : x <= y

RECURSIVE SortedSeq(_)
\* np.unique: the distinct members in ascending order
SortedSeq(S) ==
  IF S = {} THEN <<>> ELSE <<Min(S)>> \o SortedSeq(S \ {Min(S)})

RECURSIVE RemoveFirst(_, _)
\* list.remove(x) on a list that holds x: drops the first occurrence
RemoveFirst(s, x) ==
  IF s = <<>> THEN <<>>
  ELSE IF Head(s) = x THEN Tail(s)
  ELSE <<Head(s)>> \o RemoveFirst(Tail(s), x)

RECURSIVE SumOver(_, _)
SumOver(f, S) ==
  IF S = {} THEN 0
  ELSE LET x == CHOOSE y \in S : TRUE IN f[x] + SumOver(f, S \ {x})

\* ---------------------------------------------------------------- v2e_list
v2e_list(nv, ne, Etab) ==
  [v \in 0..(nv - 1) |->
     SortedSeq({ie \in 0..(ne - 1) : v \in Range(Etab[ie])})]

\* lines 214-216: one origin vertex is appended to V and its index is
\* appended as a last column to every row of E
GhostAppend(nv, ne, Etab) ==
  [ie \in 0..(ne - 1) |-> Append(Etab[ie], nv)]

\* ---------------------------------------------------------------- Init
\* shape: F's shape; sum: the contributions F holds; vnoise: how many noise
\* perturbations the vertex coordinates carried that the contributions were
\* computed from
NoArray == [shape |-> <<>>, sum |-> 0, vnoise |-> 0]

NoObject == [rows |-> 0, cols |-> 0, ok_rows |-> 0]

\* no call is in progress
CallIdle ==
  /\ a_entry = "none"
  /\ callerV = [rows |-> 0, cols |-> 0, noise |-> 0]
  /\ callerE = NoObject
  /\ callerD = [rows |-> 0, chan |-> 0]
  /\ a_res = <<>>
  /\ a_t = <<>>
  /\ a_j = 0
  /\ a_mode = "density"
  /\ a_device = "cpu"
  /\ e_mode = "none"
  /\ locV = [ref |-> "caller", rows |-> 0, cols |-> 0]
  /\ locE = [ref |-> "caller", rows |-> 0, cols |-> 0]
  /\ e_ghost = FALSE
  /\ omega = FALSE
  /\ Fsum = NoArray
  /\ ret = [kind |-> "none"]
  /\ cpc = "idle"
  /\ sc_call = {}
  /\ n_calls = 0
  /\ first_ret = [kind |-> "none"]

\* no kernel has been launched
KernelIdle ==
  /\ k_launch = [grid |-> <<>>, block |-> <<>>]
  /\ k_r = <<>>
  /\ k_n_elem = 0
  /\ lane = <<>>
  /\ k_F = <<>>
  /\ k_writers = <<>>
  /\ k_syncs = <<>>

\* no frequency vector is being evaluated
FreqIdle ==
  /\ w_res = <<>>
  /\ w_t = <<>>
  /\ w_cell = <<>>
  /\ w_cpu = <<>>
  /\ w_gpu = <<>>
  /\ w_pc = "idle"

\* neither fftpad nor rfftpad has been called
PadIdle ==
  /\ p_F = [shape |-> <<>>, data |-> <<>>]
  /\ p_res = <<>>
  /\ p_norm = FALSE
  /\ p_out = [kind |-> "none"]
  /\ p_pc = "idle"

\* the state at line 246, for every caller's table with valid vertex indices;
\* the ghost column needs n_dims = j = E.shape[1] and fftfreqs needs
\* n_dims >= 2 (line 95), so a ghost table has at least two columns
CpuInit ==
  \E nv \in 1..MaxVert, ne \in 0..MaxElem, w \in Widths, g \in BOOLEAN :
    \E Ein \in [0..(ne - 1) -> [1..w -> 0..(nv - 1)]] :
      LET Etab == IF g THEN GhostAppend(nv, ne, Ein) ELSE Ein
          nvert == IF g THEN nv + 1 ELSE nv
      IN /\ g => w >= 2
         /\ E = Etab
         /\ ghost = g
         /\ n_vert = nvert
         /\ n_elem = ne
         /\ v2elist = v2e_list(nvert, ne, Etab)
         /\ node_queue = <<>>
         /\ sig_list = [v \in 0..(nvert - 1) |-> FALSE]
         /\ vert_in_queue = [v \in 0..(nvert - 1) |-> FALSE]
         /\ elem_count = 0
         /\ F = [ie \in 0..(ne - 1) |-> 0]
         /\ iv = 0
         /\ elems = <<>>
         /\ enq_count = [v \in 0..(nvert - 1) |-> 0]
         /\ phase_count = [v \in 0..(nvert - 1) |-> 0]
         /\ pc = "while"

Init == CpuInit /\ CallIdle /\ KernelIdle /\ FreqIdle /\ PadIdle

\* ---------------------------------------------------------------- loop body
\* a scan that starts at the second vertex
SeedVerticesAfterFirst == {v \in 1..(n_vert - 1) : Len(v2elist[v]) > 0}

\* lines 249-253: the first vertex whose pending list is not empty
SeedVertices == {v \in 0..(n_vert - 1) : Len(v2elist[v]) > 0}

Reseed ==
  /\ pc = "while"
  /\ elem_count < n_elem
  /\ Len(node_queue) = 0
  /\ IF SeedVertices # {}
       THEN LET v == Min(SeedVertices)
            IN /\ node_queue' = Append(node_queue, v)
               /\ vert_in_queue' = [vert_in_queue EXCEPT ![v] = TRUE]
               /\ enq_count' = [enq_count EXCEPT ![v] = @ + 1]
       ELSE UNCHANGED <<node_queue, vert_in_queue, enq_count>>
  /\ pc' = "pop"
  /\ UNCHANGED <<E, ghost, n_vert, n_elem, v2elist, sig_list, elem_count, F,
                 iv, elems, phase_count>>
  /\ UNCHANGED <<callVars, sessVars, gpuVars, freqVars, padVars>>

\* a pop that reads the head of the queue and leaves it queued
PopPeek ==
  /\ \/ pc = "pop"
     \/ pc = "while" /\ elem_count < n_elem /\ Len(node_queue) # 0
  /\ IF Len(node_queue) = 0
       THEN /\ pc' = "error"
            /\ UNCHANGED <<iv, elems>>
       ELSE /\ iv' = Head(node_queue)
            /\ elems' = v2elist[Head(node_queue)]
            /\ pc' = "elems"
  /\ UNCHANGED <<E, ghost, n_vert, n_elem, v2elist, node_queue, sig_list,
                 vert_in_queue, elem_count, F, enq_count, phase_count>>
  /\ UNCHANGED <<callVars, sessVars, gpuVars, freqVars, padVars>>

\* lines 254-256: popleft (IndexError on an empty deque), then the deepcopy
Pop ==
  /\ \/ pc = "pop"
     \/ pc = "while" /\ elem_count < n_elem /\ Len(node_queue) # 0
  /\ IF Len(node_queue) = 0
       THEN /\ pc' = "error"
            /\ UNCHANGED <<node_queue, iv, elems>>
       ELSE /\ iv' = Head(node_queue)
            /\ node_queue' = Tail(node_queue)
            /\ elems' = v2elist[Head(node_queue)]
            /\ pc' = "elems"
  /\ UNCHANGED <<E, ghost, n_vert, n_elem, v2elist, sig_list, vert_in_queue,
                 elem_count, F, enq_count, phase_count>>
  /\ UNCHANGED <<callVars, sessVars, gpuVars, freqVars, padVars>>

\* a touch that leaves the simplex in the vertex's pending list
TouchVertexKeepsPending(st, vert, ie) ==
  [v2e   |-> st.v2e,
   queue |-> IF st.inq[vert] THEN st.queue ELSE Append(st.queue, vert),
   inq   |-> [st.inq EXCEPT ![vert] = TRUE],
   enq   |-> IF st.inq[vert] THEN st.enq ELSE [st.enq EXCEPT ![vert] = @ + 1],
   sig   |-> [st.sig EXCEPT ![vert] = TRUE],
   phase |-> IF st.sig[vert] THEN st.phase
             ELSE [st.phase EXCEPT ![vert] = @ + 1],
   err   |-> FALSE]

\* a touch that computes the vertex's phase whether or not a pair is cached
TouchVertexNoCache(st, vert, ie) ==
  IF ie \notin Range(st.v2e[vert])
    THEN [st EXCEPT !.err = TRUE]
    ELSE [v2e   |-> [st.v2e EXCEPT ![vert] = RemoveFirst(@, ie)],
          queue |-> IF st.inq[vert] THEN st.queue ELSE Append(st.queue, vert),
          inq   |-> [st.inq EXCEPT ![vert] = TRUE],
          enq   |-> IF st.inq[vert] THEN st.enq
                    ELSE [st.enq EXCEPT ![vert] = @ + 1],
          sig   |-> [st.sig EXCEPT ![vert] = TRUE],
          phase |-> [st.phase EXCEPT ![vert] = @ + 1],
          err   |-> FALSE]

\* a touch that appends the vertex to the queue without looking at
\* vert_in_queue
TouchVertexAlwaysEnqueue(st, vert, ie) ==
  IF ie \notin Range(st.v2e[vert])
    THEN [st EXCEPT !.err = TRUE]
    ELSE [v2e   |-> [st.v2e EXCEPT ![vert] = RemoveFirst(@, ie)],
          queue |-> Append(st.queue, vert),
          inq   |-> [st.inq EXCEPT ![vert] = TRUE],
          enq   |-> [st.enq EXCEPT ![vert] = @ + 1],
          sig   |-> [st.sig EXCEPT ![vert] = TRUE],
          phase |-> IF st.sig[vert] THEN st.phase
                    ELSE [st.phase EXCEPT ![vert] = @ + 1],
          err   |-> FALSE]

\* lines 260-266 for one vertex of the simplex; st.err is the ValueError of
\* list.remove on a list that does not hold ie
TouchVertex(st, vert, ie) ==
  IF ie \notin Range(st.v2e[vert])
    THEN [st EXCEPT !.err = TRUE]
    ELSE [v2e   |-> [st.v2e EXCEPT ![vert] = RemoveFirst(@, ie)],
          queue |-> IF st.inq[vert] THEN st.queue ELSE Append(st.queue, vert),
          inq   |-> [st.inq EXCEPT ![vert] = TRUE],
          enq   |-> IF st.inq[vert] THEN st.enq
                    ELSE [st.enq EXCEPT ![vert] = @ + 1],
          sig   |-> [st.sig EXCEPT ![vert] = TRUE],
          phase |-> IF st.sig[vert] THEN st.phase
                    ELSE [st.phase EXCEPT ![vert] = @ + 1],
          err   |-> FALSE]

RECURSIVE TouchVerts(_, _, _, _)
\* lines 259-266: for vert in verts, stopping at the first exception
TouchVerts(verts, ie, k, st) ==
  IF k > Len(verts) \/ st.err THEN st
  ELSE TouchVerts(verts, ie, k + 1, TouchVertex(st, verts[k], ie))

\* lines 257-276, one simplex of elems
ProcessElem ==
  /\ pc = "elems"
  /\ elems # <<>>
  /\ LET ie == Head(elems)
         st == TouchVerts(E[ie], ie, 1,
                 [v2e |-> v2elist, queue |-> node_queue, inq |-> vert_in_queue,
                  enq |-> enq_count, sig |-> sig_list, phase |-> phase_count,
                  err |-> FALSE])
     IN /\ v2elist' = st.v2e
        /\ node_queue' = st.queue
        /\ vert_in_queue' = st.inq
        /\ enq_count' = st.enq
        /\ sig_list' = st.sig
        /\ phase_count' = st.phase
        /\ IF st.err
             THEN /\ pc' = "error"
                  /\ UNCHANGED <<F, elem_count, elems>>
             ELSE /\ F' = [F EXCEPT ![ie] = @ + 1]
                  /\ elem_count' = elem_count + 1
                  /\ elems' = Tail(elems)
                  /\ pc' = "elems"
  /\ UNCHANGED <<E, ghost, n_vert, n_elem, iv>>
  /\ UNCHANGED <<callVars, sessVars, gpuVars, freqVars, padVars>>

\* an end of iteration that forgets to clear the popped vertex's pair
EvictNothing ==
  /\ pc = "elems"
  /\ elems = <<>>
  /\ pc' = "while"
  /\ UNCHANGED <<E, ghost, n_vert, n_elem, v2elist, node_queue, sig_list,
                 vert_in_queue, elem_count, F, iv, elems, enq_count,
                 phase_count>>
  /\ UNCHANGED <<callVars, sessVars, gpuVars, freqVars, padVars>>

\* an end of iteration that clears every pair, not only the popped vertex's
EvictAll ==
  /\ pc = "elems"
  /\ elems = <<>>
  /\ sig_list' = [v \in 0..(n_vert - 1) |-> FALSE]
  /\ pc' = "while"
  /\ UNCHANGED <<E, ghost, n_vert, n_elem, v2elist, node_queue, vert_in_queue,
                 elem_count, F, iv, elems, enq_count, phase_count>>
  /\ UNCHANGED <<callVars, sessVars, gpuVars, freqVars, padVars>>

\* lines 277-280
Evict ==
  /\ pc = "elems"
  /\ elems = <<>>
  /\ sig_list' = [sig_list EXCEPT ![iv] = FALSE]
  /\ pc' = "while"
  /\ UNCHANGED <<E, ghost, n_vert, n_elem, v2elist, node_queue, vert_in_queue,
                 elem_count, F, iv, elems, enq_count, phase_count>>
  /\ UNCHANGED <<callVars, sessVars, gpuVars, freqVars, padVars>>

\* line 247, condition false
LoopExit ==
  /\ pc = "while"
  /\ ~(elem_count < n_elem)
  /\ pc' = "done"
  /\ UNCHANGED <<E, ghost, n_vert, n_elem, v2elist, node_queue, sig_list,
                 vert_in_queue, elem_count, F, iv, elems, enq_count,
                 phase_count>>
  /\ UNCHANGED <<callVars, sessVars, gpuVars, freqVars, padVars>>

Next == Reseed \/ Pop \/ ProcessElem \/ Evict \/ LoopExit

Spec == Init /\ [][Next]_vars

\* the interpreter runs the loop to its end: no step is postponed forever
FairSpec == Spec /\ WF_vars(Next)

\* ================================================================ one call
\* ---------------------------------------------------------------- bounds
\* largest ambient dimension of the calls that are modelled
MaxDims == 3
\* the values a resolution entry takes
ResVals == {2, 3}

Modes == {"density", "mass", "cubic"}

Devices == {"cpu", "gpu", "tpu"}

Entries == {"simplex_ft", "point_ft", "line_ft", "surf_ft", "volume_ft"}

RECURSIVE Pow(_, _)
Pow(b, e) == IF e = 0 THEN 1 ELSE b * Pow(b, e - 1)

\* lines 505, 519, 534, 549: the simplex dimension a wrapper passes on
WrapperJ(entry) ==
  CASE entry = "point_ft"  -> 0
    [] entry = "line_ft"   -> 1
    [] entry = "surf_ft"   -> 2
    [] entry = "volume_ft" -> 3

\* np.fft.rfftfreq(r, d): r // 2 + 1 samples
rfftfreq_len(r) == r \div 2 + 1

\* lines 230-231 with fftfreqs (lines 87-92): every axis but the last keeps
\* res[dim], the last holds rfftfreq(...)[:-1]; then the channel axis
F_shape_cpu(res, chan) ==
  [i \in 1..(Len(res) + 1) |->
     IF i < Len(res) THEN res[i]
     ELSE IF i = Len(res) THEN rfftfreq_len(res[i]) - 1
     ELSE chan]

\* lines 341-343
F_shape_gpu(res, chan) ==
  [i \in 1..(Len(res) + 1) |->
     IF i < Len(res) THEN res[i]
     ELSE IF i = Len(res) THEN res[i] \div 2
     ELSE chan]

\* the loop of simplex_ft_cpu is not running
CpuIdle ==
  /\ E = <<>>
  /\ ghost = FALSE
  /\ n_vert = 0
  /\ n_elem = 0
  /\ v2elist = <<>>
  /\ node_queue = <<>>
  /\ sig_list = <<>>
  /\ vert_in_queue = <<>>
  /\ elem_count = 0
  /\ F = <<>>
  /\ iv = 0
  /\ elems = <<>>
  /\ enq_count = <<>>
  /\ phase_count = <<>>
  /\ pc = "idle"

\* the arguments of one call; a resolution is isotropic (an anisotropic one
\* only adds the warning of line 288), point_ft takes no element table, and
\* V has as many rows as the largest element table so that point_ft's own
\* table (one row per vertex) can match or miss the rows of D.  The entries
\* of E are indices of rows of V; of their values the call keeps ok_rows: a
\* table of one column repeats no vertex, and a table with more columns than
\* V has rows repeats one in every row
CallInit ==
  \E entry \in Entries, nd \in 1..MaxDims, lr \in 1..MaxDims, r0 \in ResVals,
     lt \in 1..MaxDims, ec \in 1..(MaxDims + 1), er \in 1..MaxElem,
     dr \in 1..MaxElem, jj \in 0..MaxDims, m \in Modes, d \in Devices,
     ok \in 0..MaxElem :
    /\ entry # "simplex_ft" => jj = WrapperJ(entry)
    /\ entry = "point_ft" => ec = 1 /\ er = 1
    /\ ok <= er
    /\ ec = 1 => ok = er
    /\ ec > MaxElem => ok = 0
    /\ a_entry = entry
    /\ callerV = [rows |-> MaxElem, cols |-> nd, noise |-> 0]
    /\ callerE = IF entry = "point_ft" THEN NoObject
                 ELSE [rows |-> er, cols |-> ec, ok_rows |-> ok]
    /\ callerD = [rows |-> dr, chan |-> 1]
    /\ a_res = [i \in 1..lr |-> r0]
    /\ a_t = [i \in 1..lt |-> 1]
    /\ a_j = jj
    /\ a_mode = m
    /\ a_device = d
    /\ e_mode = "none"
    /\ locV = [ref |-> "caller", rows |-> 0, cols |-> 0]
    /\ locE = [ref |-> "caller", rows |-> 0, cols |-> 0]
    /\ e_ghost = FALSE
    /\ omega = FALSE
    /\ Fsum = NoArray
    /\ ret = [kind |-> "none"]
    /\ cpc = "call"
    /\ sc_call = {}
    /\ n_calls = 1
    /\ first_ret = [kind |-> "none"]
    /\ CpuIdle
    /\ KernelIdle
    /\ FreqIdle
    /\ PadIdle

\* the arrays the engine's names V and E stand for
EngineV == IF locV.ref = "caller" THEN [rows |-> callerV.rows, cols |-> callerV.cols]
           ELSE [rows |-> locV.rows, cols |-> locV.cols]

EngineE == IF locE.ref = "caller" THEN [rows |-> callerE.rows, cols |-> callerE.cols]
           ELSE [rows |-> locE.rows, cols |-> locE.cols]

Raise(exc) ==
  /\ ret' = [kind |-> "error", exc |-> exc]
  /\ cpc' = "raised"

\* lines 484-488, entered directly or through a wrapper (lines 504-505, 519,
\* 534, 549): the device is checked, the mode the caller gave is not passed on
Dispatch ==
  /\ cpc = "call"
  /\ IF a_device \notin {"cpu", "gpu"}
       THEN /\ Raise("AssertionError")
            /\ UNCHANGED <<e_mode, locE>>
       ELSE /\ e_mode' = "density"
            /\ locE' = IF a_entry = "point_ft"
                         THEN [ref |-> "own", rows |-> callerV.rows, cols |-> 1]
                         ELSE locE
            /\ cpc' = "validate"
            /\ UNCHANGED ret
  /\ UNCHANGED <<a_entry, callerV, callerE, callerD, a_res, a_t, a_j, a_mode,
                 a_device, locV, e_ghost, omega, Fsum>>
  /\ UNCHANGED <<cpuVars, sessVars, gpuVars, freqVars, padVars>>

\* lines 203-206 (cpu), 318-322 (gpu)
Validate ==
  /\ cpc = "validate"
  /\ LET n_dims == EngineV.cols
     IN IF \/ a_device = "gpu" /\ n_dims \notin {2, 3}
           \/ n_dims # Len(a_res)
           \/ EngineE.rows # callerD.rows
           \/ e_mode \notin {"density", "mass"}
          THEN Raise("AssertionError")
          ELSE cpc' = "noise" /\ UNCHANGED ret
  /\ UNCHANGED <<a_entry, callerV, callerE, callerD, a_res, a_t, a_j, a_mode,
                 a_device, e_mode, locV, locE, e_ghost, omega, Fsum>>
  /\ UNCHANGED <<cpuVars, sessVars, gpuVars, freqVars, padVars>>

\* lines 209 / 325: V += ... writes into the array the name V stands for
Noise ==
  /\ cpc = "noise"
  /\ IF locV.ref = "caller"
       THEN callerV' = [callerV EXCEPT !.noise = @ + 1] /\ UNCHANGED locV
       ELSE UNCHANGED <<callerV, locV>>
  /\ cpc' = "ghost"
  /\ UNCHANGED <<a_entry, callerE, callerD, a_res, a_t, a_j, a_mode, a_device,
                 e_mode, locE, e_ghost, omega, Fsum, ret>>
  /\ UNCHANGED <<cpuVars, sessVars, gpuVars, freqVars, padVars>>

\* a ghost append that grows the arrays the names stand for, in place
GhostStepInPlace ==
  /\ cpc = "ghost"
  /\ LET n_dims == EngineV.cols
         g == EngineE.cols = a_j /\ n_dims = a_j
     IN /\ e_ghost' = g
        /\ IF ~(EngineE.cols = a_j + 1 \/ g)
             THEN /\ Raise("AssertionError")
                  /\ UNCHANGED <<locV, locE, callerV, callerE>>
             ELSE /\ callerV' = IF g /\ locV.ref = "caller"
                                  THEN [callerV EXCEPT !.rows = @ + 1]
                                  ELSE callerV
                  /\ callerE' = IF g /\ locE.ref = "caller"
                                  THEN [callerE EXCEPT !.cols = @ + 1]
                                  ELSE callerE
                  /\ locE' = IF g /\ locE.ref = "own"
                               THEN [locE EXCEPT !.cols = @ + 1] ELSE locE
                  /\ UNCHANGED locV
                  /\ cpc' = "grid"
                  /\ UNCHANGED ret
  /\ UNCHANGED <<a_entry, callerD, a_res, a_t, a_j, a_mode, a_device, e_mode,
                 omega, Fsum>>
  /\ UNCHANGED <<cpuVars, sessVars, gpuVars, freqVars, padVars>>

\* a ghost mode that looks at the columns of E only, not at n_dims
GhostStepAnyDims ==
  /\ cpc = "ghost"
  /\ LET g == EngineE.cols = a_j
     IN /\ e_ghost' = g
        /\ IF ~(EngineE.cols = a_j + 1 \/ g)
             THEN /\ Raise("AssertionError")
                  /\ UNCHANGED <<locV, locE>>
             ELSE /\ locV' = IF g THEN [ref |-> "own", rows |-> EngineV.rows + 1,
                                        cols |-> EngineV.cols]
                             ELSE locV
                  /\ locE' = IF g THEN [ref |-> "own", rows |-> EngineE.rows,
                                        cols |-> EngineE.cols + 1]
                             ELSE locE
                  /\ cpc' = "grid"
                  /\ UNCHANGED ret
  /\ UNCHANGED <<a_entry, callerV, callerE, callerD, a_res, a_t, a_j, a_mode,
                 a_device, e_mode, omega, Fsum>>
  /\ UNCHANGED <<cpuVars, sessVars, gpuVars, freqVars, padVars>>

\* lines 212-216 / 328-332: np.append builds new arrays and the names V and E
\* are bound to them
GhostStep ==
  /\ cpc = "ghost"
  /\ LET n_dims == EngineV.cols
         g == EngineE.cols = a_j /\ n_dims = a_j
     IN /\ e_ghost' = g
        /\ IF ~(EngineE.cols = a_j + 1 \/ g)
             THEN /\ Raise("AssertionError")
                  /\ UNCHANGED <<locV, locE>>
             ELSE /\ locV' = IF g THEN [ref |-> "own", rows |-> EngineV.rows + 1,
                                        cols |-> EngineV.cols]
                             ELSE locV
                  /\ locE' = IF g THEN [ref |-> "own", rows |-> EngineE.rows,
                                        cols |-> EngineE.cols + 1]
                             ELSE locE
                  /\ cpc' = "grid"
                  /\ UNCHANGED ret
  /\ UNCHANGED <<a_entry, callerV, callerE, callerD, a_res, a_t, a_j, a_mode,
                 a_device, e_mode, omega, Fsum>>
  /\ UNCHANGED <<cpuVars, sessVars, gpuVars, freqVars, padVars>>

\* cpu, lines 221-232: fftfreqs swaps omega[0] and omega[1] (IndexError for
\* one axis), line 227 reads t[dim] for every axis (IndexError for a short
\* t), then F is allocated.  gpu, lines 337-344: omega has one entry per
\* entry of t, F is allocated
Grid ==
  /\ cpc = "grid"
  /\ LET n_dims == EngineV.cols
     IN IF a_device = "cpu"
          THEN IF Len(a_res) < 2
                 THEN Raise("IndexError") /\ UNCHANGED <<omega, Fsum>>
                 ELSE /\ omega' = TRUE
                      /\ IF Len(a_t) < n_dims
                           THEN Raise("IndexError") /\ UNCHANGED Fsum
                           ELSE /\ Fsum' = [shape |-> F_shape_cpu(a_res, callerD.chan),
                                            sum |-> 0, vnoise |-> 0]
                                /\ cpc' = "integrate"
                                /\ UNCHANGED ret
          ELSE /\ omega' = TRUE
               /\ Fsum' = [shape |-> F_shape_gpu(a_res, callerD.chan), sum |-> 0,
                           vnoise |-> 0]
               /\ cpc' = "integrate"
               /\ UNCHANGED ret
  /\ UNCHANGED <<a_entry, callerV, callerE, callerD, a_res, a_t, a_j, a_mode,
                 a_device, e_mode, locV, locE, e_ghost>>
  /\ UNCHANGED <<cpuVars, sessVars, gpuVars, freqVars, padVars>>

\* lines 130-136: the assertions of simplex_content on (j, n_dims, signed,
\* *args); signed is a Python bool in every call the engines make
simplex_content_ok(call) ==
  /\ call.n_dims = call.arg_len
  /\ call.n_args = call.j + 1
  /\ call.n_dims > call.j => ~call.signed

\* lines 267-268 / 352-354: the call of simplex_content for a row of E
ContentCall ==
  [j |-> a_j, n_dims |-> EngineV.cols, signed |-> e_ghost,
   n_args |-> EngineE.cols, arg_len |-> EngineV.cols]

\* the simplices of the engine's E that the loop of lines 247-280 processes
\* before line 260 fails to remove one from a pending list a second time;
\* the table point_ft builds (line 504) and the ghost column (line 216)
\* repeat no vertex
OkRows == IF a_entry = "point_ft" THEN EngineE.rows ELSE callerE.ok_rows

\* cpu, lines 235-280; gpu, lines 346-373.  Every simplex asks
\* simplex_content for its content and adds content * integral * D[ie] to F
\* once; the unit of the sum is one such contribution, computed from the
\* coordinates the engine's V holds.  On the cpu a row of E that names a
\* vertex twice ends the loop with the ValueError of line 260, after the
\* simplices before it were processed; the gpu has no pending lists and
\* processes such a row like any other.  A gpu kernel given a t shorter than
\* n_dims reads omega past its end: the launch fails or the sum is whatever
\* the read produced
Integrate ==
  /\ cpc = "integrate"
  /\ IF a_device = "cpu" /\ OkRows = 0
       THEN /\ Raise("ValueError")
            /\ UNCHANGED <<Fsum, sc_call>>
     ELSE IF ~simplex_content_ok(ContentCall)
       THEN /\ Raise("AssertionError")
            /\ sc_call' = sc_call \cup {ContentCall}
            /\ UNCHANGED Fsum
     ELSE IF a_device = "cpu" /\ OkRows < EngineE.rows
       THEN /\ Raise("ValueError")
            /\ sc_call' = sc_call \cup {ContentCall}
            /\ Fsum' = [Fsum EXCEPT !.sum = OkRows, !.vnoise = callerV.noise]
     ELSE IF a_device = "gpu" /\ Len(a_t) < EngineV.cols
       THEN /\ sc_call' = sc_call \cup {ContentCall}
            /\ \/ Raise("CudaError") /\ UNCHANGED Fsum
               \/ \E junk \in {0, EngineE.rows} :
                    /\ Fsum' = [Fsum EXCEPT !.sum = junk,
                                            !.vnoise = callerV.noise]
                    /\ cpc' = "scale"
                    /\ UNCHANGED ret
       ELSE /\ sc_call' = sc_call \cup {ContentCall}
            /\ Fsum' = [Fsum EXCEPT !.sum = EngineE.rows,
                                    !.vnoise = callerV.noise]
            /\ cpc' = "scale"
            /\ UNCHANGED ret
  /\ UNCHANGED <<a_entry, callerV, callerE, callerD, a_res, a_t, a_j, a_mode,
                 a_device, e_mode, locV, locE, e_ghost, omega>>
  /\ UNCHANGED <<n_calls, first_ret>>
  /\ UNCHANGED <<cpuVars, gpuVars, freqVars, padVars>>

\* lines 286-289 / 378-381: F *= res[0] ** j in density mode
Rescale(mode, sum, res, j) ==
  IF mode = "density" THEN sum * Pow(res[1], j) ELSE sum

\* lines 286-290 / 378-382
Scale ==
  /\ cpc = "scale"
  /\ ret' = [kind  |-> "tensor",
             shape |-> Fsum.shape,
             value |-> Rescale(e_mode, Fsum.sum, a_res, a_j),
             vnoise |-> Fsum.vnoise]
  /\ cpc' = "returned"
  /\ UNCHANGED <<a_entry, callerV, callerE, callerD, a_res, a_t, a_j, a_mode,
                 a_device, e_mode, locV, locE, e_ghost, omega, Fsum>>
  /\ UNCHANGED <<cpuVars, sessVars, gpuVars, freqVars, padVars>>

CallNext ==
  Dispatch \/ Validate \/ Noise \/ GhostStep \/ Grid \/ Integrate \/ Scale

CallSpec == CallInit /\ [][CallNext]_vars

\* the caller calls a second time with the same arguments: the same array
\* objects V, E, D and the same res, t, j, mode, device; the engine's locals
\* of the first call are gone
CallAgain ==
  /\ cpc = "returned"
  /\ n_calls = 1
  /\ n_calls' = 2
  /\ first_ret' = ret
  /\ sc_call' = {}
  /\ e_mode' = "none"
  /\ locV' = [ref |-> "caller", rows |-> 0, cols |-> 0]
  /\ locE' = [ref |-> "caller", rows |-> 0, cols |-> 0]
  /\ e_ghost' = FALSE
  /\ omega' = FALSE
  /\ Fsum' = NoArray
  /\ ret' = [kind |-> "none"]
  /\ cpc' = "call"
  /\ UNCHANGED <<a_entry, callerV, callerE, callerD, a_res, a_t, a_j, a_mode,
                 a_device>>
  /\ UNCHANGED <<cpuVars, gpuVars, freqVars, padVars>>

TwiceNext ==
  \/ Dispatch \/ Validate \/ Noise \/ GhostStep \/ Grid \/ Integrate \/ Scale
  \/ CallAgain

\* two calls in a row on the same arrays
TwiceSpec == CallInit /\ [][TwiceNext]_vars

\* ================================================================ gpu kernels
\* The three axes are u, v, w.  simplex_ft_kernel2 has no w loop: it is the
\* three-axis kernel with one lane and one cell on the w axis.  One channel is
\* modelled: the ic loop of lines 408-409 / 440-441 is the lane's update of
\* its cell.
\* ---------------------------------------------------------------- bounds
\* largest entry of F.shape[:-1]
MaxRes == 3
\* most lanes of a launch
MaxLanes == 2
\* the values an entry of cuda.gridDim or cuda.blockDim takes
LaunchDims == {1, 2}
\* numbers of simplices in the launches that are modelled
KernelElems == {1, 2}

Axes == 1..3

\* the lanes of a launch: a block index and a thread index per axis
LanesOf(launch) ==
  {l \in [bid : [Axes -> 0..1], tid : [Axes -> 0..1]] :
     \A a \in Axes : l.bid[a] < launch.grid[a] /\ l.tid[a] < launch.block[a]}

\* a stride that forgets the grid: the lanes of two blocks step alike
StrideOfBlockOnly(a) == k_launch.block[a]

\* lines 396-397 / 424-426: cuda.gridDim * cuda.blockDim
Stride(a) == k_launch.grid[a] * k_launch.block[a]

\* lines 393 / 421: cuda.grid(n) = blockIdx * blockDim + threadIdx
Start(l) == [a \in Axes |-> l.bid[a] * k_launch.block[a] + l.tid[a]]

Cells(r) == {c \in [Axes -> 0..(MaxRes - 1)] : \A a \in Axes : c[a] < r[a]}

LaneDone == [i |-> 0, idx |-> <<0, 0, 0>>, pc |-> "done", acc |-> <<>>]

\* the first iteration of the loop nest of lines 401-404 / 430-435: a range
\* whose start is not below its stop is empty
Enter(l, r, ne) ==
  IF ne > 0 /\ \A a \in Axes : Start(l)[a] < r[a]
    THEN [i |-> 0, idx |-> Start(l), pc |-> "load", acc |-> <<>>]
    ELSE LaneDone

\* the iteration that follows (i, idx) in the loop nest: the innermost range
\* steps first, an exhausted range restarts at the lane's start
Advance(l, cur) ==
  LET s == Start(l)
      x == cur.idx
  IN IF x[3] + Stride(3) < k_r[3]
       THEN [cur EXCEPT !.idx = [x EXCEPT ![3] = @ + Stride(3)], !.pc = "load",
                        !.acc = <<>>]
     ELSE IF x[2] + Stride(2) < k_r[2]
       THEN [cur EXCEPT !.idx = <<x[1], x[2] + Stride(2), s[3]>>, !.pc = "load",
                        !.acc = <<>>]
     ELSE IF x[1] + Stride(1) < k_r[1]
       THEN [cur EXCEPT !.idx = <<x[1] + Stride(1), s[2], s[3]>>, !.pc = "load",
                        !.acc = <<>>]
     ELSE IF cur.i + 1 < k_n_elem
       THEN [i |-> cur.i + 1, idx |-> s, pc |-> "load", acc |-> <<>>]
     ELSE LaneDone

\* a launch of simplex_ft_kernel2 (one lane, one cell on the w axis) or of
\* simplex_ft_kernel3, with F zeroed (lines 344, 364)
KernelInit ==
  \E nd \in {2, 3}, g \in [Axes -> LaunchDims], b \in [Axes -> LaunchDims],
     r \in [Axes -> 1..MaxRes], ne \in KernelElems :
    LET launch == [grid |-> g, block |-> b]
    IN /\ nd = 2 => g[3] = 1 /\ b[3] = 1 /\ r[3] = 1
       /\ g[1] * b[1] * g[2] * b[2] * g[3] * b[3] <= MaxLanes
       /\ k_launch = launch
       /\ k_r = r
       /\ k_n_elem = ne
       /\ lane = [l \in LanesOf(launch) |-> Enter(l, r, ne)]
       /\ k_F = [c \in Cells(r) |-> [i \in 0..(ne - 1) |-> 0]]
       /\ k_writers = [c \in Cells(r) |-> {}]
       /\ k_syncs = [l \in LanesOf(launch) |-> 0]
       /\ CpuIdle
       /\ CallIdle
       /\ FreqIdle
       /\ PadIdle

\* lines 409 / 441, first half of +=: the lane reads F[iu, iv, iw]
Load(l) ==
  /\ lane[l].pc = "load"
  /\ lane' = [lane EXCEPT ![l].acc = k_F[lane[l].idx], ![l].pc = "store"]
  /\ UNCHANGED <<k_launch, k_r, k_n_elem, k_F, k_writers, k_syncs>>
  /\ UNCHANGED <<cpuVars, callVars, sessVars, freqVars, padVars>>

\* lines 409 / 441, second half of +=: the lane writes what it read plus the
\* contribution of simplex i, then arrives at cuda.syncthreads()
Store(l) ==
  /\ lane[l].pc = "store"
  /\ k_F' = [k_F EXCEPT ![lane[l].idx] =
                          [lane[l].acc EXCEPT ![lane[l].i] = @ + 1]]
  /\ k_writers' = [k_writers EXCEPT ![lane[l].idx] = @ \cup {l}]
  /\ lane' = [lane EXCEPT ![l].pc = "sync"]
  /\ k_syncs' = [k_syncs EXCEPT ![l] = @ + 1]
  /\ UNCHANGED <<k_launch, k_r, k_n_elem>>
  /\ UNCHANGED <<cpuVars, callVars, sessVars, freqVars, padVars>>

\* lines 410 / 442: the barrier of one block is decided when each of its
\* lanes waits at it or has left the kernel.  When all of them wait it
\* opens and they go on to their next iteration.  When a lane has left the
\* kernel without arriving, the barrier sits in divergent control flow and
\* CUDA leaves the outcome open: the lanes that wait are released as if the
\* others had arrived, or they wait forever
Barrier(bid) ==
  LET mates == {l \in DOMAIN lane : l.bid = bid}
  IN /\ \A l \in mates : lane[l].pc \in {"sync", "done"}
     /\ \E l \in mates : lane[l].pc = "sync"
     /\ \/ lane' = [l \in DOMAIN lane |->
                      IF l \in mates /\ lane[l].pc = "sync"
                        THEN Advance(l, lane[l]) ELSE lane[l]]
        \/ /\ \E l \in mates : lane[l].pc = "done"
           /\ lane' = [l \in DOMAIN lane |->
                         IF l \in mates /\ lane[l].pc = "sync"
                           THEN [lane[l] EXCEPT !.pc = "hung"] ELSE lane[l]]
     /\ UNCHANGED <<k_launch, k_r, k_n_elem, k_F, k_writers, k_syncs>>
     /\ UNCHANGED <<cpuVars, callVars, sessVars, freqVars, padVars>>

KernelNext ==
  \/ \E l \in DOMAIN lane : Load(l)
  \/ \E l \in DOMAIN lane : Store(l)
  \/ \E bid \in {l.bid : l \in DOMAIN lane} : Barrier(bid)

KernelSpec == KernelInit /\ [][KernelNext]_vars

\* ================================================================ frequencies
\* The frequency vector that each engine pairs with a vertex's coordinates at
\* one cell of the returned F.  A component is [twice, per]: the frequency
\* twice / 2 (the kernels subtract r / 2, a half for an odd r) on an axis of
\* period per, that is the angular frequency twice * pi / per.  The eps
\* offsets (line 223: the origin cell; lines 403-405, 432-436: every index)
\* are left out.
\* ---------------------------------------------------------------- bounds
\* the values an entry of res takes here: even and odd
FreqRes == {2, 3, 4}
\* the values an entry of t takes
Periods == {1, 2}

\* np.fft.fftfreq(n, d=1/n)[i]
fftfreq(n, i) == IF i <= (n - 1) \div 2 THEN i ELSE i - n

\* lines 87-92: freqs[dim][i]; the last axis is rfftfreq(r_, d=1/r_)[:-1]
freqs(res, dim, i) == IF dim < Len(res) THEN fftfreq(res[dim], i) ELSE i

\* lines 93-96: omega[cell] after meshgrid(indexing='ij'), the exchange of
\* omega[0] and omega[1], and the stack on a last axis
fftfreqs(res, cell) ==
  LET grid == [dim \in 1..Len(res) |-> freqs(res, dim, cell[dim])]
  IN [d \in 1..Len(res) |->
        IF d = 1 THEN grid[2] ELSE IF d = 2 THEN grid[1] ELSE grid[d]]

\* lines 222-227: component dim of omega is multiplied by 2 * pi / t[dim]
omega_cpu(res, t, cell) ==
  [dim \in 1..Len(res) |->
     [twice |-> 2 * fftfreqs(res, cell)[dim], per |-> t[dim]]]

\* lines 402-407 and 431-439, with omega[d] = 2 * pi / t[d] (line 338): the
\* vector uv / uvw of kernel cell k, where r = F.shape[:-1] has r[d] = res[d]
\* on every axis but the last
uvw(res, t, k) ==
  LET n == Len(res)
      u == [twice |-> 2 * k[1] - res[1], per |-> t[1]]
      v == IF n = 2 THEN [twice |-> 2 * k[2], per |-> t[2]]
           ELSE [twice |-> 2 * k[2] - res[2], per |-> t[2]]
      w == [twice |-> 2 * k[n], per |-> t[n]]
  IN IF n = 2 THEN <<v, u>> ELSE <<v, u, w>>

\* line 376: np.fft.ifftshift over every axis but the last; the cell of the
\* kernel's F that lands on cell of the returned F
ifftshift_src(res, cell) ==
  [d \in 1..Len(res) |->
     IF d < Len(res) THEN (cell[d] + res[d] \div 2) % res[d] ELSE cell[d]]

omega_gpu(res, t, cell) == uvw(res, t, ifftshift_src(res, cell))

\* the cells of an array of that shape without its channel axis
GridCells(shape) ==
  {c \in [1..(Len(shape) - 1) -> 0..3] :
     \A d \in 1..(Len(shape) - 1) : c[d] < shape[d]}

\* identical (res, t) for both engines, in 2-D or 3-D
FreqInit ==
  \E nd \in {2, 3} :
    \E res \in [1..nd -> FreqRes], t \in [1..nd -> Periods] :
      /\ w_res = res
      /\ w_t = t
      /\ w_cell = <<>>
      /\ w_cpu = <<>>
      /\ w_gpu = <<>>
      /\ w_pc = "pick"
      /\ CpuIdle
      /\ CallIdle
      /\ KernelIdle
      /\ PadIdle

\* one cell of the returned tensor
PickCell ==
  /\ w_pc = "pick"
  /\ \E c \in GridCells(F_shape_cpu(w_res, 1)) \cap GridCells(F_shape_gpu(w_res, 1)) :
       w_cell' = c
  /\ w_pc' = "cpu"
  /\ UNCHANGED <<w_res, w_t, w_cpu, w_gpu>>
  /\ UNCHANGED <<cpuVars, callVars, sessVars, gpuVars, padVars>>

\* line 265: sig_list[vert] = np.sum(V[vert] * omega, axis=-1)
CpuOmega ==
  /\ w_pc = "cpu"
  /\ w_cpu' = omega_cpu(w_res, w_t, w_cell)
  /\ w_pc' = "gpu"
  /\ UNCHANGED <<w_res, w_t, w_cell, w_gpu>>
  /\ UNCHANGED <<cpuVars, callVars, sessVars, gpuVars, padVars>>

\* lines 453-454: uvw_dot_xi += uvw[dd] * xi[dd]
GpuOmega ==
  /\ w_pc = "gpu"
  /\ w_gpu' = omega_gpu(w_res, w_t, w_cell)
  /\ w_pc' = "both"
  /\ UNCHANGED <<w_res, w_t, w_cell, w_cpu>>
  /\ UNCHANGED <<cpuVars, callVars, sessVars, gpuVars, padVars>>

FreqNext == PickCell \/ CpuOmega \/ GpuOmega

FreqSpec == FreqInit /\ [][FreqNext]_vars

\* ================================================================ padding
\* fftpad and rfftpad on arrays of one or two axes.  An array is
\* [shape, data] with data a function of the 0-based index tuple; the entries
\* of F are integers, the entries of a result are fractions [num, den] so
\* that the normalization scale is exact.
\* ---------------------------------------------------------------- bounds
\* the values an entry of F.shape takes
PadShape == {1, 2}
\* the values an entry of res takes
PadRes == 1..4
\* the indices along one axis of a result
PadIndex == 0..3
\* the values an entry of F takes
PadValues == {1, 2}

IndexSet(shape) ==
  {c \in [1..Len(shape) -> PadIndex] : \A d \in 1..Len(shape) : c[d] < shape[d]}

\* a pad that puts all the zeros of an axis after the entries of A
np_pad_at_end(A, lo, hi) ==
  LET shp == [d \in 1..Len(A.shape) |-> lo[d] + A.shape[d] + hi[d]]
  IN [shape |-> shp,
      data  |-> [c \in IndexSet(shp) |->
                   IF \A d \in 1..Len(shp) : c[d] < A.shape[d]
                     THEN A.data[c]
                     ELSE 0]]

\* np.pad(A, pad_list, 'constant'): lo[d] zeros before and hi[d] zeros after
\* the entries of A on axis d
np_pad(A, lo, hi) ==
  LET shp == [d \in 1..Len(A.shape) |-> lo[d] + A.shape[d] + hi[d]]
  IN [shape |-> shp,
      data  |-> [c \in IndexSet(shp) |->
                   IF \A d \in 1..Len(shp) :
                        lo[d] <= c[d] /\ c[d] < lo[d] + A.shape[d]
                     THEN A.data[[d \in 1..Len(shp) |-> c[d] - lo[d]]]
                     ELSE 0]]

\* np.fft.fftshift(A, axes=range(n_axes)): out[i] = A[(i - n // 2) % n]
fftshift(A, n_axes) ==
  [shape |-> A.shape,
   data  |-> [c \in IndexSet(A.shape) |->
                A.data[[d \in 1..Len(A.shape) |->
                          IF d <= n_axes
                            THEN (c[d] + A.shape[d] - A.shape[d] \div 2)
                                   % A.shape[d]
                            ELSE c[d]]]]]

\* np.fft.ifftshift(A, axes=range(n_axes)): out[i] = A[(i + n // 2) % n]
ifftshift(A, n_axes) ==
  [shape |-> A.shape,
   data  |-> [c \in IndexSet(A.shape) |->
                A.data[[d \in 1..Len(A.shape) |->
                          IF d <= n_axes
                            THEN (c[d] + A.shape[d] \div 2) % A.shape[d]
                            ELSE c[d]]]]]

RECURSIVE ProdTo(_, _)
\* f[1] * ... * f[n]
ProdTo(f, n) == IF n = 0 THEN 1 ELSE f[n] * ProdTo(f, n - 1)

\* F_pad *= scale, or F_pad as it is, with scale = num / den
Scaled(A, num, den) ==
  [kind  |-> "array",
   shape |-> A.shape,
   data  |-> [c \in IndexSet(A.shape) |-> [num |-> A.data[c] * num, den |-> den]]]

PadError(exc) == [kind |-> "error", exc |-> exc]

\* lines 24-40
fftpad(Farr, res, norm) ==
  LET shape == Farr.shape
      both == IF Len(res) < Len(shape) THEN Len(res) ELSE Len(shape)
      half == [d \in 1..Len(shape) |->
                 IF d <= Len(res) THEN (res[d] - shape[d]) \div 2 ELSE 0]
  IN IF \E d \in 1..both : res[d] < shape[d] \/ (res[d] - shape[d]) % 2 # 0
       THEN PadError("AssertionError")
     ELSE IF Len(res) > Len(shape)
       THEN PadError("IndexError")
     ELSE IF norm
       THEN Scaled(np_pad(Farr, half, half),
                   ProdTo(res, Len(res)), ProdTo(shape, Len(res)))
       ELSE Scaled(np_pad(Farr, half, half), 1, 1)

\* lines 52-74.  Line 60 reads i after the loop of line 58: it is the index
\* of the last axis but one, and is unbound when that loop has no iteration;
\* line 71 reads it after the loop of line 69
rfftpad(Farr, res, norm) ==
  LET shape == Farr.shape
      n == Len(res)
      i == n - 1
      lo == [d \in 1..Len(shape) |->
               IF d < n THEN (res[d] - shape[d]) \div 2 ELSE 0]
      hi == [d \in 1..Len(shape) |->
               IF d < n THEN (res[d] - shape[d]) \div 2
               ELSE IF d = n THEN (res[i] - shape[i]) \div 2
               ELSE 0]
      padded == ifftshift(np_pad(fftshift(Farr, n - 1), lo, hi), n - 1)
  IN IF n > Len(shape)
       THEN PadError("AssertionError")
     ELSE IF \E d \in 1..(n - 1) :
               res[d] < shape[d] \/ (res[d] - shape[d]) % 2 # 0
       THEN PadError("AssertionError")
     ELSE IF res[n] < 2 * shape[n]
       THEN PadError("AssertionError")
     ELSE IF n = 1
       THEN PadError("UnboundLocalError")
     ELSE IF norm
       THEN Scaled(padded, ProdTo(res, n - 1) * res[n],
                   ProdTo(shape, n - 1) * 2 * shape[i])
       ELSE Scaled(padded, 1, 1)

\* an array F of one or two axes and a target resolution
PadInit ==
  \E fd \in {1, 2}, rd \in {1, 2}, nm \in BOOLEAN :
    \E shape \in [1..fd -> PadShape], res \in [1..rd -> PadRes] :
      \E data \in [IndexSet(shape) -> PadValues] :
        /\ p_F = [shape |-> shape, data |-> data]
        /\ p_res = res
        /\ p_norm = nm
        /\ p_out = [kind |-> "none"]
        /\ p_pc = "call"
        /\ CpuIdle
        /\ CallIdle
        /\ KernelIdle
        /\ FreqIdle

CallFftpad ==
  /\ p_pc = "call"
  /\ p_out' = fftpad(p_F, p_res, p_norm)
  /\ p_pc' = "fftpad"
  /\ UNCHANGED <<p_F, p_res, p_norm>>
  /\ UNCHANGED <<cpuVars, callVars, sessVars, gpuVars, freqVars>>

CallRfftpad ==
  /\ p_pc = "call"
  /\ p_out' = rfftpad(p_F, p_res, p_norm)
  /\ p_pc' = "rfftpad"
  /\ UNCHANGED <<p_F, p_res, p_norm>>
  /\ UNCHANGED <<cpuVars, callVars, sessVars, gpuVars, freqVars>>

PadNext == CallFftpad \/ CallRfftpad

PadSpec == PadInit /\ [][PadNext]_vars

\* ================================================================ claims
\* ---- shared vocabulary of the traversal claims
Verts == 0..(n_vert - 1)

Elems == 0..(n_elem - 1)

Cached == {v \in Verts : sig_list[v]}

\* no row of E names the same vertex twice: the rows are simplices
ProperComplex == \A ie \in Elems : Cardinality(Range(E[ie])) = Len(E[ie])

\* two simplices that share no vertex: the complex is not connected
Disconnected ==
  \E a, b \in Elems : Range(E[a]) \cap Range(E[b]) = {}

\* C1: every simplex's contribution is added to F at most once at any time,
\* elem_count counts exactly the simplices added so far, and when the loop
\* has exited elem_count = n_elem and every simplex has been added exactly
\* once (F is the sum of the per-simplex contributions).
C1_ExactlyOnce ==
  /\ \A ie \in Elems : F[ie] \in {0, 1}
  /\ elem_count = SumOver(F, Elems)
  /\ pc = "done" => /\ elem_count = n_elem
                    /\ \A ie \in Elems : F[ie] = 1

\* the loop has exited on a disconnected table of two simplices
C1_Witness ==
  /\ pc = "done"
  /\ n_elem >= 2
  /\ Disconnected
  /\ \A ie \in Elems : F[ie] = 1

\* C2: on every finite simplicial complex (no row repeats a vertex) the
\* loop reaches its exit with all n_elem simplices processed.
C2_Terminates ==
  ProperComplex => <>(pc = "done" /\ elem_count = n_elem)

\* the exit is reached on a complex of several components without the
\* ghost vertex, so the queue was reseeded for the second component
C2_Witness ==
  /\ pc = "done"
  /\ ~ghost
  /\ ProperComplex
  /\ Disconnected
  /\ n_elem >= 2
  /\ \A v \in Verts : enq_count[v] <= 1
  /\ Cardinality({v \in Verts : enq_count[v] > 0}) >= 2

\* C8: every vertex that holds a cached pair is in node_queue or is the
\* vertex being processed.
C8_CacheInFrontier ==
  \A v \in Cached : \/ v \in Range(node_queue)
                    \/ pc \in {"elems", "error"} /\ v = iv

\* a simplex is being processed, pairs are cached for the popped vertex and
\* for a queued one, and an earlier vertex has been popped and evicted
C8_Witness ==
  /\ pc = "elems"
  /\ iv \in Cached
  /\ \E v \in Cached : v # iv /\ v \in Range(node_queue)
  /\ \E v \in Verts : /\ phase_count[v] > 0
                      /\ v # iv
                      /\ v \notin Range(node_queue)
                      /\ v \notin Cached

\* C9 as stated: when the loop has exited no vertex holds a cached pair.
C9_NoCacheAtExit ==
  pc = "done" => Cached = {}

\* C9 amended: a pair exists only for a vertex that has been touched, the
\* popped vertex's pair is discarded at the end of its iteration, and
\* between iterations and at the exit the vertices holding a pair are
\* exactly those still in node_queue; at the exit all pending lists are
\* empty.
C9_CacheLifecycle ==
  /\ \A v \in Verts : phase_count[v] = 0 => ~sig_list[v]
  /\ pc \in {"while", "done"} => Cached = Range(node_queue)
  /\ pc = "done" => \A v \in Verts : v2elist[v] = <<>>

\* the loop has exited with one vertex evicted and another still cached
C9_Witness ==
  /\ pc = "done"
  /\ \E v \in Verts : phase_count[v] > 0 /\ ~sig_list[v]
  /\ \E v \in Cached : v \in Range(node_queue)

\* ---- shared vocabulary of the call claims
ValidModes == {"density", "mass"}

ValidDevices == {"cpu", "gpu"}

\* C3: a call in mass mode returns the accumulated sum without the rescale,
\* and that output times res[0]^j is what the same call returns in density
\* mode.
C3_MassTimesResIsDensity ==
  (cpc = "returned" /\ a_mode = "mass") =>
     /\ ret.value = Fsum.sum
     /\ ret.value * Pow(a_res[1], a_j)
          = Rescale("density", Fsum.sum, a_res, a_j)

\* C4: a call with a mode outside {density, mass} or a device outside
\* {cpu, gpu} fails: it never returns a tensor.
C4_InvalidModeOrDeviceFails ==
  (a_mode \notin ValidModes \/ a_device \notin ValidDevices) =>
     /\ cpc # "returned"
     /\ ret.kind # "tensor"

\* C5: when a call has failed, the caller's V has not been perturbed and
\* neither the frequency array nor F has been produced.
C5_FailsBeforeComputation ==
  cpc = "raised" =>
     /\ callerV.noise = 0
     /\ ~omega
     /\ Fsum = NoArray

\* C6: a call whose V has a number of columns different from len(res) or
\* from len(t) fails: it never returns a tensor.
C6_DimensionMismatchRejected ==
  (callerV.cols # Len(a_res) \/ callerV.cols # Len(a_t)) =>
     /\ cpc # "returned"
     /\ ret.kind # "tensor"

\* C7: no step of a call changes the caller's E or D or the shape of the
\* caller's V; the only change to the caller's V is one more noise
\* perturbation (the ghost vertex and the ghost column go to arrays of the
\* engine's own).
C7_CallerArraysKept ==
  [][ /\ callerE' = callerE
      /\ callerD' = callerD
      /\ callerV'.rows = callerV.rows
      /\ callerV'.cols = callerV.cols
      /\ callerV'.noise \in {callerV.noise, callerV.noise + 1}
      /\ callerV'.noise <= 1 ]_vars

\* a ghost-mode call has returned its tensor: the engine worked on arrays
\* one vertex and one column larger than the caller's, whose V now carries
\* the noise
C7_Witness ==
  /\ cpc = "returned"
  /\ e_ghost
  /\ callerV.noise = 1
  /\ locV.ref = "own" /\ locV.rows = callerV.rows + 1
  /\ locE.ref = "own" /\ locE.cols = callerE.cols + 1

\* ---- shared vocabulary of the kernel claims
KernelDone == \A l \in DOMAIN lane : lane[l].pc = "done"

\* C10: at any time no cell of F has been written by two lanes and no
\* (simplex, cell) contribution has been accumulated twice; when every lane
\* has left the kernel each cell has been written by exactly one lane and
\* holds every simplex's contribution exactly once.
C10_DisjointCells ==
  /\ \A c \in DOMAIN k_F :
       /\ Cardinality(k_writers[c]) <= 1
       /\ \A i \in DOMAIN k_F[c] : k_F[c][i] <= 1
  /\ KernelDone =>
       \A c \in DOMAIN k_F :
         /\ Cardinality(k_writers[c]) = 1
         /\ \A i \in DOMAIN k_F[c] : k_F[c][i] = 1

\* a launch of the three-axis kernel over two simplices has finished: two
\* lanes wrote cells, and on one axis the output is larger than the
\* launched grid, so a lane owns several cells
C10_Witness ==
  /\ KernelDone
  /\ k_n_elem = 2
  /\ k_r[3] > 1
  /\ \E a \in Axes : k_r[a] > Stride(a) /\ Stride(a) > 1
  /\ \E c1, c2 \in DOMAIN k_F : k_writers[c1] # {} /\ k_writers[c2] # {}
                                /\ k_writers[c1] # k_writers[c2]

\* ---- the frequency grid of the two engines
\* C11: given identical (res, t) the engines return tensors of one shape and
\* at every cell each coordinate of a vertex meets the same angular
\* frequency in both (the same signed frequency over the same period).
C11_EnginesAgree ==
  w_pc = "both" =>
    /\ F_shape_cpu(w_res, 1) = F_shape_gpu(w_res, 1)
    /\ \A d \in 1..Len(w_res) :
         w_cpu[d].twice * w_gpu[d].per = w_gpu[d].twice * w_cpu[d].per

\* C12: the tensor a call returns has shape (res[0], ..., res[n-2],
\* res[n-1] / 2 + 1, n_channel), on the cpu and on the gpu path.
C12_HalfPlusOne ==
  cpc = "returned" =>
    ret.shape = [i \in 1..(Len(a_res) + 1) |->
                   IF i < Len(a_res) THEN a_res[i]
                   ELSE IF i = Len(a_res) THEN a_res[i] \div 2 + 1
                   ELSE callerD.chan]

\* C13: the second of two calls with identical inputs, the same arrays and
\* the same noise values, returns what the first call returned: the same
\* shape, the same contributions, computed from the same coordinates.
C13_SecondCallSame ==
  (n_calls = 2 /\ cpc = "returned") => ret = first_ret

\* ---- shared vocabulary of the padding claims
\* fftpad's preconditions: res[i] >= F.shape[i] with an even difference on
\* each axis that res names
FftpadPre ==
  /\ Len(p_res) <= Len(p_F.shape)
  /\ \A d \in 1..Len(p_res) :
       p_res[d] >= p_F.shape[d] /\ (p_res[d] - p_F.shape[d]) % 2 = 0

\* where the original block starts in an array of that shape
CentreOffset(shape) ==
  [d \in 1..Len(shape) |-> (shape[d] - p_F.shape[d]) \div 2]

InCentre(shape, c) ==
  \A d \in 1..Len(shape) :
    /\ CentreOffset(shape)[d] <= c[d]
    /\ c[d] < CentreOffset(shape)[d] + p_F.shape[d]

\* C14: under fftpad's preconditions the result has shape res on the padded
\* axes, its centred block of F's shape is F times the scale (the product of
\* res[i] / F.shape[i] when norm is true, 1 otherwise), and every entry
\* outside that block is zero.
C14_PadThenCrop ==
  (p_pc = "fftpad" /\ FftpadPre) =>
    /\ p_out.kind = "array"
    /\ Len(p_out.shape) = Len(p_F.shape)
    /\ \A d \in 1..Len(p_F.shape) :
         p_out.shape[d] = IF d <= Len(p_res) THEN p_res[d] ELSE p_F.shape[d]
    /\ \A c \in IndexSet(p_out.shape) :
         LET num == IF p_norm THEN ProdTo(p_res, Len(p_res)) ELSE 1
             den == IF p_norm THEN ProdTo(p_F.shape, Len(p_res)) ELSE 1
             src == [d \in 1..Len(c) |-> c[d] - CentreOffset(p_out.shape)[d]]
         IN IF InCentre(p_out.shape, c)
              THEN p_out.data[c].num * den = p_F.data[src] * num * p_out.data[c].den
              ELSE p_out.data[c].num = 0

\* fftpad has padded both axes of a 2 x 2 array with unequal entries to
\* 4 x 4 with the scale applied
C14_Witness ==
  /\ p_pc = "fftpad"
  /\ FftpadPre
  /\ p_norm
  /\ p_F.shape = <<2, 2>>
  /\ p_res = <<4, 4>>
  /\ \E c1, c2 \in IndexSet(p_F.shape) : p_F.data[c1] # p_F.data[c2]
  /\ p_out.kind = "array"
  /\ p_out.data[<<1, 1>>].num = p_F.data[<<0, 0>>] * 16

\* rfftpad's preconditions: res names no more axes than F has, every
\* leading axis grows by an even amount, and half of res[-1] holds F's last
\* padded axis
RfftpadPre ==
  /\ Len(p_res) <= Len(p_F.shape)
  /\ \A d \in 1..(Len(p_res) - 1) :
       p_res[d] >= p_F.shape[d] /\ (p_res[d] - p_F.shape[d]) % 2 = 0
  /\ p_res[Len(p_res)] >= 2 * p_F.shape[Len(p_res)]

\* C15: under rfftpad's preconditions the result is an array of length
\* res[i] on each leading axis i and of length res[-1] / 2 on the last
\* padded axis, for every len(res) >= 1.
C15_PaddedToRes ==
  (p_pc = "rfftpad" /\ RfftpadPre) =>
    /\ p_out.kind = "array"
    /\ \A d \in 1..(Len(p_res) - 1) : p_out.shape[d] = p_res[d]
    /\ p_out.shape[Len(p_res)] = p_res[Len(p_res)] \div 2

\* ---- the calls of simplex_content
\* C16: an engine asks simplex_content for signed content only in ghost
\* mode, where the caller's E has j columns and n_dims = j, and no call of
\* simplex_content made by an engine fails one of its assertions.
C16_SignedOnlyInGhost ==
  /\ \A call \in sc_call :
       /\ call.signed => /\ e_ghost
                         /\ callerE.cols = call.j
                         /\ call.n_dims = call.j
       /\ simplex_content_ok(call)
  /\ (cpc = "raised" /\ sc_call # {}) => ret.exc # "AssertionError"

\* a ghost-mode call on either device has asked for signed content and has
\* returned its tensor
C16_Witness ==
  /\ cpc = "returned"
  /\ \E call \in sc_call : call.signed /\ call.j = 2 /\ call.n_args = 3

\* ---- the pending lists, the queue and the cache of the traversal
\* C17: between simplex-processing steps simplex ie is in v2elist[v]
\* exactly when ie is unprocessed and v is one of its vertices, and no
\* removal of a simplex from a pending list fails, on every element table
\* with valid vertex indices.
C17_PendingInvariant ==
  /\ pc # "error"
  /\ \A v \in Verts, ie \in Elems :
       ie \in Range(v2elist[v]) <=> (F[ie] = 0 /\ v \in Range(E[ie]))

\* C18: popleft never runs on an empty queue: whenever the queue is empty
\* at the top of an iteration with elem_count < n_elem the scan finds a
\* vertex with a non-empty pending list, so the queue holds a vertex at the
\* pop.
C18_PopFindsVertex ==
  /\ (pc = "while" /\ elem_count < n_elem /\ Len(node_queue) = 0)
       => SeedVertices # {}
  /\ pc = "pop" => Len(node_queue) > 0
  /\ pc = "error" => elems # <<>>

\* the queue ran empty after some simplices were processed and the scan has
\* enqueued a vertex of a further component, which is about to be popped
C18_Witness ==
  /\ pc = "pop"
  /\ 0 < elem_count /\ elem_count < n_elem
  /\ node_queue # <<>>
  /\ Len(v2elist[Head(node_queue)]) > 0

\* a vertex that held a pair and holds none now
Evicted(v) == phase_count[v] > 0 /\ ~sig_list[v]

\* C19: a vertex's phase is computed at most once; a pair is discarded only
\* when its vertex's pending list is empty; and once a vertex's pair has
\* been discarded no step touches the vertex: its pending list stays empty
\* and its phase is not computed again.
C19_PhaseOnce ==
  [][ \A v \in Verts :
        /\ phase_count'[v] <= 1
        /\ (sig_list[v] /\ ~sig_list'[v]) => v2elist[v] = <<>>
        /\ Evicted(v) => /\ v2elist[v] = <<>>
                         /\ v2elist'[v] = <<>>
                         /\ ~sig_list'[v]
                         /\ phase_count'[v] = phase_count[v] ]_vars

\* the loop has exited; a vertex shared by two simplices computed its phase
\* once and has been evicted
C19_Witness ==
  /\ pc = "done"
  /\ \E v \in Verts :
       /\ Evicted(v)
       /\ phase_count[v] = 1
       /\ Cardinality({ie \in Elems : v \in Range(E[ie])}) >= 2

\* C20: every vertex is appended to node_queue at most once, by a touch or
\* by a reseed; node_queue holds no vertex twice, is never longer than
\* n_vert, and at most n_vert vertices are popped (the pops are the appends
\* that are no longer in the queue).
C20_EnqueuedOnce ==
  /\ \A v \in Verts : enq_count[v] <= 1
  /\ Cardinality(Range(node_queue)) = Len(node_queue)
  /\ Len(node_queue) <= n_vert
  /\ SumOver(enq_count, Verts) - Len(node_queue) <= n_vert

\* the loop has exited on a chain of two segments: one vertex was enqueued
\* by the reseed, two by touches, and one is still queued
C20_Witness ==
  /\ pc = "done"
  /\ ~ghost
  /\ n_vert >= 3
  /\ n_elem >= 2
  /\ \A v \in Verts : enq_count[v] = 1
  /\ Len(node_queue) >= 1

\* ---- the barrier of the kernels
\* C21: no lane waits forever at the barrier, and the lanes of a block that
\* have left the kernel have made the same number of cuda.syncthreads()
\* calls, for every output resolution and every simplex count.
C21_BarrierCallsMatch ==
  /\ \A l \in DOMAIN lane : lane[l].pc # "hung"
  /\ \A l1, l2 \in DOMAIN lane :
       (l1.bid = l2.bid /\ lane[l1].pc = "done" /\ lane[l2].pc = "done")
         => k_syncs[l1] = k_syncs[l2]

====
